---- MODULE Spec2Model ----
(***************************************************************************)
(* Model of the JSON-file-backed todo store (class TodoStorage) together   *)
(* with the helpers it uses: the zod schemas TodoSchema / TodoListSchema,  *)
(* TodoUtils.updateTodo / getStats, and RetryHandler.withRetry.            *)
(*                                                                         *)
(* Encoding of JavaScript values                                           *)
(*   id         1, 2, ...       a well-formed uuid supplied by a caller    *)
(*              GenBase + k     the k-th uuid made by crypto.randomUUID    *)
(*              0               absent / falsy                             *)
(*              < 0             a non-empty string that is not a uuid      *)
(*   timestamps t >= 1          an ISO-8601 datetime, ordered as the clock *)
(*              0               absent / falsy                             *)
(*              -1              a non-empty string that is not a datetime  *)
(*   dueDate    d >= 1 a date, 0 absent or undefined, -1 a malformed date  *)
(*   title      "" absent or empty, "LONG" more than 200 characters        *)
(*   completed  "true" / "false" booleans, "yes" a truthy non-boolean      *)
(*   Missing    an absent key (JSON.stringify omits undefined values, so   *)
(*              undefined and absent are the same value on disk)           *)
(*   path       the sequence of its pieces (literal text, timestamp)       *)
(*                                                                         *)
(* Specifications                                                          *)
(*   Spec, SpecLoad, SpecAll, SpecBackup   calls made one after the other, *)
(*              each a single step                                         *)
(*   SpecAsync  calls made without awaiting the one before, each a step    *)
(*              per stretch between two awaits                             *)
(*   SpecRetry  RetryHandler.withRetry on its own                          *)
(***************************************************************************)
EXTENDS Integers, Sequences, FiniteSets, TLC

\* ------------------------------------------------------------------ bounds
MaxTime == 2
MaxTodos == 2
MaxGen == 2
MaxFaults == 1
MaxRetries == 3
MaxCalls == 2

\* ------------------------------------------------------- program constants
SaveMaxRetries == 3
LoadMaxRetries == 3
SaveDelayMs == 500
LoadDelayMs == 1000
GenBase == 10
MaxTitleLen == 200

Missing == "<missing>"

VARIABLES isInitialized, data, file, backup, now, nextId, faults, last,
          retry, filePath, inflight

vars == <<isInitialized, data, file, backup, now, nextId, faults, last,
          retry, filePath, inflight>>

\* ------------------------------------------------------------ helper logic
RemoveAt(s, i) == [j \in 1..(Len(s) - 1) |-> IF j < i THEN s[j] ELSE s[j + 1]]

\* JavaScript truthiness of the encoded values
TruthyNum(v) == v # 0
TruthyStr(v) == v \notin {"", Missing, "false"}

\* Array.prototype.findIndex(todo => todo.id === id); 0 stands for -1
FindIndex(todos, id) ==
    IF \E i \in 1..Len(todos) : todos[i].id = id
    THEN CHOOSE i \in 1..Len(todos) :
            /\ todos[i].id = id
            /\ \A j \in 1..(i - 1) : todos[j].id # id
    ELSE 0

\* Array.prototype.some(existing => existing.id === id)
HasId(todos, id) == \E i \in 1..Len(todos) : todos[i].id = id

UniqueIds(todos) ==
    \A i, j \in 1..Len(todos) : todos[i].id = todos[j].id => i = j

\* -------------------------------------------------------------- the schema
TitleLen(title) ==
    CASE title = ""     -> 0
      [] title = "LONG" -> MaxTitleLen + 1
      [] OTHER          -> 8

IsUuid(id) == id >= 1
IsDatetime(t) == t >= 1

\* TodoSchema: does TodoSchema.parse accept the value
TodoSchemaOk(t) ==
    /\ IsUuid(t.id)
    /\ t.title # Missing
    /\ TitleLen(t.title) >= 1
    /\ TitleLen(t.title) <= MaxTitleLen
    /\ t.description \in {"", "D", Missing}
    /\ t.completed \in {"true", "false", Missing}
    /\ IsDatetime(t.createdAt)
    /\ IsDatetime(t.updatedAt)
    /\ t.dueDate >= 0
    /\ t.priority \in {"low", "medium", "high", Missing}
    /\ t.tags \in {"none", "one", Missing}

\* TodoSchema: the value TodoSchema.parse returns (defaults filled in)
TodoSchemaParse(t) ==
    [t EXCEPT !.description = IF @ = Missing THEN "" ELSE @,
              !.completed   = IF @ = Missing THEN "false" ELSE @,
              !.priority    = IF @ = Missing THEN "medium" ELSE @,
              !.tags        = IF @ = Missing THEN "none" ELSE @]

NoMetadata == [version |-> Missing, lastModified |-> 0,
               totalCount |-> 0, completedCount |-> 0]

MetadataOk(m) ==
    /\ m.version # ""
    /\ IsDatetime(m.lastModified)
    /\ m.totalCount >= 0
    /\ m.completedCount >= 0

\* TodoListSchema over a parsed file: an object with todos and metadata
TodoListSchemaOk(raw) ==
    /\ raw.kind = "wrapped"
    /\ \A i \in 1..Len(raw.todos) : TodoSchemaOk(raw.todos[i])
    /\ MetadataOk(raw.metadata)

TodoListSchemaParse(raw) ==
    [todos |-> [i \in 1..Len(raw.todos) |-> TodoSchemaParse(raw.todos[i])],
     metadata |-> [raw.metadata EXCEPT
                      !.version = IF @ = Missing THEN "1.0.0" ELSE @]]

\* ------------------------------------------------------------ TodoUtils
\* TodoUtils.getStats, the two numbers updateMetadata uses
StatsTotal(todos) == Len(todos)
StatsCompleted(todos) ==
    Cardinality({i \in 1..Len(todos) : TruthyStr(todos[i].completed)})

\* TodoUtils.updateTodo: { ...existingTodo, ...updates, updatedAt: now }
UtilsUpdateTodo(existingTodo, updates, t) ==
    [k \in DOMAIN existingTodo |->
        IF k = "updatedAt" THEN t
        ELSE IF k \in DOMAIN updates THEN updates[k]
        ELSE existingTodo[k]]

\* ---------------------------------------------------------------- errors
NoError == [name |-> "none", detail |-> "", cause |-> ""]
Err(name, detail, cause) == [name |-> name, detail |-> detail, cause |-> cause]

\* ------------------------------------------------------- RetryHandler
\* mutant of the backoff: the same delay after every failed attempt
FixedBackoff(delayMs, attempt) == delayMs

\* the delay slept after failed attempt number `attempt`:
\* delayMs * Math.pow(2, attempt - 1)
Backoff(delayMs, attempt) == delayMs * 2^(attempt - 1)

\* mutant of withRetry: the instanceof test for ValidationError and
\* NotFoundError is missing, so every error is retried
RECURSIVE WithRetryFromRetryingAll(_, _, _, _, _)
WithRetryFromRetryingAll(outcomes, maxRetries, delayMs, attempt, waits) ==
    IF outcomes[attempt] = "ok"
    THEN [calls |-> attempt, waits |-> waits, err |-> "none", cause |-> ""]
    ELSE IF attempt = maxRetries
    THEN [calls |-> attempt, waits |-> waits, err |-> "StorageError",
          cause |-> outcomes[attempt]]
    ELSE WithRetryFromRetryingAll(outcomes, maxRetries, delayMs, attempt + 1,
                                  Append(waits, Backoff(delayMs, attempt)))

\* RetryHandler.withRetry(operation, maxRetries, delayMs), the loop from
\* attempt number `attempt` on. outcomes[i] is how the i-th invocation of
\* the operation ends: "ok", or the name of the error it throws.
RECURSIVE WithRetryFrom(_, _, _, _, _)
WithRetryFrom(outcomes, maxRetries, delayMs, attempt, waits) ==
    IF outcomes[attempt] = "ok"
    THEN [calls |-> attempt, waits |-> waits, err |-> "none", cause |-> ""]
    ELSE IF outcomes[attempt] \in {"ValidationError", "NotFoundError"}
    THEN [calls |-> attempt, waits |-> waits, err |-> outcomes[attempt],
          cause |-> ""]
    ELSE IF attempt = maxRetries
    THEN [calls |-> attempt, waits |-> waits, err |-> "StorageError",
          cause |-> outcomes[attempt]]
    ELSE WithRetryFrom(outcomes, maxRetries, delayMs, attempt + 1,
                       Append(waits, Backoff(delayMs, attempt)))

WithRetry(outcomes, maxRetries, delayMs) ==
    WithRetryFrom(outcomes, maxRetries, delayMs, 1, << >>)

\* an operation whose first `fails` invocations throw an I/O error
FailFirst(fails, maxRetries) ==
    [i \in 1..maxRetries |-> IF i <= fails THEN "EIO" ELSE "ok"]

\* withRetry around such an operation: does it return, and after how many
\* calls
RetrySucceeds(maxRetries, fails) ==
    WithRetry(FailFirst(fails, maxRetries), maxRetries, 1).err = "none"
RetryAttempts(maxRetries, fails) ==
    WithRetry(FailFirst(fails, maxRetries), maxRetries, 1).calls

\* ------------------------------------------------------------ TodoStorage
\* A path is the sequence of its pieces: literal text, or a timestamp as
\* new Date().toISOString().replace(/[:.]/g, '-') renders it
Lit(text) == [lit |-> text, ts |-> 0]
Stamp(t) == [lit |-> "", ts |-> t]

\* the constructor's default, './todos.json'
DefaultPath == <<Lit("./todos"), Lit(".json")>>
\* a path in which '.json' does not occur, such as './todos.db'
OtherExtPath == <<Lit("./todos"), Lit(".db")>>

\* String.prototype.replace(pattern, replacement) with a string pattern:
\* the first occurrence is replaced, a string without one is returned as is
ReplaceFirst(str, pattern, replacement) ==
    IF \E i \in 1..Len(str) : str[i] = pattern
    THEN LET i == CHOOSE k \in 1..Len(str) :
                     /\ str[k] = pattern
                     /\ \A j \in 1..(k - 1) : str[j] # pattern
         IN SubSeq(str, 1, i - 1) \o replacement \o SubSeq(str, i + 1, Len(str))
    ELSE str

\* the backupPath createBackup computes at time t
BackupPath(path, t) ==
    ReplaceFirst(path, Lit(".json"),
                 <<Lit("_backup_"), Stamp(t), Lit(".json")>>)

\* the object the constructor builds
EmptyData(t) ==
    [todos |-> << >>,
     metadata |-> [version |-> "1.0.0", lastModified |-> t,
                   totalCount |-> 0, completedCount |-> 0]]

\* updateMetadata
UpdateMetadata(d, t) ==
    [d EXCEPT !.metadata = [@ EXCEPT !.lastModified = t,
                                     !.totalCount = StatsTotal(d.todos),
                                     !.completedCount = StatsCompleted(d.todos)]]

\* JSON.stringify(this.data, null, 2): the document the file then holds
JsonStringify(d) ==
    [kind |-> "wrapped", todos |-> d.todos, metadata |-> d.metadata]

\* the delays saveToFile sleeps in withRetry(writeFile, 3, 500) when the
\* first wf calls of fs.writeFile fail
SaveWaits(wf) ==
    WithRetry(FailFirst(wf, SaveMaxRetries), SaveMaxRetries, SaveDelayMs).waits

\* mutant of saveToFile: the catch that turns withRetry's failure into a
\* FileError is missing
SaveToFileUnwrapped(d, f, t, wf) ==
    LET d1 == UpdateMetadata(d, t) IN
    IF RetrySucceeds(SaveMaxRetries, wf)
    THEN [data |-> d1, file |-> JsonStringify(d1), err |-> NoError,
          writes |-> RetryAttempts(SaveMaxRetries, wf),
          waits |-> SaveWaits(wf)]
    ELSE [data |-> d1, file |-> f,
          err |-> Err("StorageError", "Operation failed after attempts", "EIO"),
          writes |-> RetryAttempts(SaveMaxRetries, wf),
          waits |-> SaveWaits(wf)]

\* mutant of saveToFile: a write that failed once is reported as saved
\* although the retry never wrote the file
SaveToFileLosesRetriedWrite(d, f, t, wf) ==
    LET d1 == UpdateMetadata(d, t) IN
    IF RetrySucceeds(SaveMaxRetries, wf)
    THEN [data |-> d1, file |-> IF wf = 0 THEN JsonStringify(d1) ELSE f,
          err |-> NoError, writes |-> RetryAttempts(SaveMaxRetries, wf),
          waits |-> SaveWaits(wf)]
    ELSE [data |-> d1, file |-> f,
          err |-> Err("FileError", "write", "StorageError"),
          writes |-> RetryAttempts(SaveMaxRetries, wf),
          waits |-> SaveWaits(wf)]

\* saveToFile on in-memory list d while the primary file holds f; the first
\* wf calls of fs.writeFile fail
SaveToFile(d, f, t, wf) ==
    LET d1 == UpdateMetadata(d, t) IN
    IF RetrySucceeds(SaveMaxRetries, wf)
    THEN [data |-> d1, file |-> JsonStringify(d1), err |-> NoError,
          writes |-> RetryAttempts(SaveMaxRetries, wf),
          waits |-> SaveWaits(wf)]
    ELSE [data |-> d1, file |-> f,
          err |-> Err("FileError", "write", "StorageError"),
          writes |-> RetryAttempts(SaveMaxRetries, wf),
          waits |-> SaveWaits(wf)]

\* mutant of the array migration: every element gets a new id and the
\* current timestamps, whatever it held
MigrateItemAsNew(todo, gid, t) ==
    [id          |-> gid,
     title       |-> IF TruthyStr(todo.title) THEN todo.title ELSE "Untitled",
     description |-> IF TruthyStr(todo.description) THEN todo.description ELSE "",
     completed   |-> IF TruthyStr(todo.completed) THEN "true" ELSE "false",
     createdAt   |-> t,
     updatedAt   |-> t,
     dueDate     |-> todo.dueDate,
     priority    |-> IF TruthyStr(todo.priority) THEN todo.priority ELSE "medium",
     tags        |-> IF todo.tags \in {"none", "one", "many"} THEN todo.tags
                     ELSE "none"]

\* one element of a legacy array, coerced by migrateData; gid is the id
\* TodoUtils.generateId() would return for it
MigrateItem(todo, gid, t) ==
    [id          |-> IF TruthyNum(todo.id) THEN todo.id ELSE gid,
     title       |-> IF TruthyStr(todo.title) THEN todo.title ELSE "Untitled",
     description |-> IF TruthyStr(todo.description) THEN todo.description ELSE "",
     completed   |-> IF TruthyStr(todo.completed) THEN "true" ELSE "false",
     createdAt   |-> IF TruthyNum(todo.createdAt) THEN todo.createdAt ELSE t,
     updatedAt   |-> IF TruthyNum(todo.updatedAt) THEN todo.updatedAt ELSE t,
     dueDate     |-> todo.dueDate,
     priority    |-> IF TruthyStr(todo.priority) THEN todo.priority ELSE "medium",
     tags        |-> IF todo.tags \in {"none", "one", "many"} THEN todo.tags
                     ELSE "none"]

\* how many ids generateId has handed out before element i of the array
GeneratedBefore(items, i) ==
    Cardinality({j \in 1..(i - 1) : ~TruthyNum(items[j].id)})

\* mutant of migrateData: the list that got its metadata added is returned
\* without being saved
MigrateDataWithoutMetadataSave(d, f, raw, nid, t, wf) ==
    IF raw.kind = "array"
    THEN LET migrated ==
                [todos |-> [i \in 1..Len(raw.todos) |->
                              MigrateItem(raw.todos[i],
                                  GenBase + nid + GeneratedBefore(raw.todos, i) + 1,
                                  t)],
                 metadata |-> [version |-> "1.0.0", lastModified |-> t,
                               totalCount |-> Len(raw.todos),
                               completedCount |-> StatsCompleted(raw.todos)]]
             s == SaveToFile(migrated, f, t, wf)
         IN [data |-> s.data, ret |-> s.data, file |-> s.file,
             nextId |-> nid + GeneratedBefore(raw.todos, Len(raw.todos) + 1),
             writes |-> s.writes, waits |-> s.waits, faults |-> wf,
             err |-> IF s.err = NoError THEN NoError
                     ELSE Err("ValidationError",
                              "Failed to migrate array format data", "")]
    ELSE IF raw.kind = "nometa"
    THEN LET migrated ==
                [todos |-> raw.todos,
                 metadata |-> [version |-> "1.0.0", lastModified |-> t,
                               totalCount |-> Len(raw.todos),
                               completedCount |-> StatsCompleted(raw.todos)]]
         IN [data |-> migrated, ret |-> migrated, file |-> f,
             nextId |-> nid, writes |-> 0, waits |-> << >>,
             faults |-> 0, err |-> NoError]
    ELSE [data |-> d, ret |-> d, file |-> f, nextId |-> nid, writes |-> 0,
          waits |-> << >>, faults |-> 0,
          err |-> Err("ValidationError",
                      "Unable to migrate todo data - unsupported format", "")]

\* migrateData(rawData): this.data, the primary file f, the id generator
\* and the thrown error afterwards; `ret` is the returned TodoList
MigrateData(d, f, raw, nid, t, wf) ==
    IF raw.kind = "array"
    THEN LET migrated ==
                [todos |-> [i \in 1..Len(raw.todos) |->
                              MigrateItem(raw.todos[i],
                                  GenBase + nid + GeneratedBefore(raw.todos, i) + 1,
                                  t)],
                 metadata |-> [version |-> "1.0.0", lastModified |-> t,
                               totalCount |-> Len(raw.todos),
                               completedCount |-> StatsCompleted(raw.todos)]]
             s == SaveToFile(migrated, f, t, wf)
         IN [data |-> s.data, ret |-> s.data, file |-> s.file,
             nextId |-> nid + GeneratedBefore(raw.todos, Len(raw.todos) + 1),
             writes |-> s.writes, waits |-> s.waits, faults |-> wf,
             err |-> IF s.err = NoError THEN NoError
                     ELSE Err("ValidationError",
                              "Failed to migrate array format data", "")]
    ELSE IF raw.kind = "nometa"
    THEN LET migrated ==
                [todos |-> raw.todos,
                 metadata |-> [version |-> "1.0.0", lastModified |-> t,
                               totalCount |-> Len(raw.todos),
                               completedCount |-> StatsCompleted(raw.todos)]]
             s == SaveToFile(migrated, f, t, wf)
         IN [data |-> s.data, ret |-> s.data, file |-> s.file,
             nextId |-> nid, writes |-> s.writes, waits |-> s.waits,
             faults |-> wf,
             err |-> IF s.err = NoError THEN NoError
                     ELSE Err("ValidationError",
                              "Failed to add metadata to existing todo data", "")]
    ELSE [data |-> d, ret |-> d, file |-> f, nextId |-> nid, writes |-> 0,
          waits |-> << >>, faults |-> 0,
          err |-> Err("ValidationError",
                      "Unable to migrate todo data - unsupported format", "")]

\* validateAndMigrate(rawData)
ValidateAndMigrate(d, f, raw, nid, t, wf) ==
    IF TodoListSchemaOk(raw)
    THEN [data |-> d, ret |-> TodoListSchemaParse(raw), file |-> f,
          nextId |-> nid, writes |-> 0, waits |-> << >>, faults |-> 0,
          err |-> NoError]
    ELSE MigrateData(d, f, raw, nid, t, wf)

\* loadFromFile; rfail: fs.readFile fails with an I/O error other than
\* ENOENT; wf: failing writes of a save the migration may run
LoadFromFile(d, f, nid, t, rfail, wf) ==
    IF f.kind = "absent"
    THEN [data |-> d, file |-> f, nextId |-> nid, reads |-> 1, writes |-> 0,
          waits |-> << >>, faults |-> 0, err |-> Err("ENOENT", "", "")]
    ELSE IF rfail
    THEN [data |-> d, file |-> f, nextId |-> nid, reads |-> 1, writes |-> 0,
          waits |-> << >>, faults |-> 1, err |-> Err("EIO", "", "")]
    ELSE IF f.kind = "malformed"
    THEN [data |-> d, file |-> f, nextId |-> nid, reads |-> 1, writes |-> 0,
          waits |-> << >>, faults |-> 0, err |-> Err("FileError", "read", "")]
    ELSE LET v == ValidateAndMigrate(d, f, f, nid, t, wf) IN
         [data |-> IF v.err = NoError THEN v.ret ELSE v.data,
          file |-> v.file, nextId |-> v.nextId, reads |-> 1,
          writes |-> v.writes, waits |-> v.waits, faults |-> v.faults,
          err |-> v.err]

\* every way one loadFromFile call can end
LoadOutcomes(d, f, nid, t) ==
    {LoadFromFile(d, f, nid, t, rfail, wf) :
        rfail \in BOOLEAN, wf \in 0..SaveMaxRetries}

\* RetryHandler.withRetry(() => this.loadFromFile(), 3, 1000), from attempt
\* number `attempt` on, after `reads` reads, `writes` writes and the delays
\* `waits` so far
RECURSIVE RetryLoad(_, _, _, _, _, _, _, _, _)
RetryLoad(d, f, nid, t, attempt, reads, writes, waits, flt) ==
    UNION {
        LET o1 == [o EXCEPT !.reads = reads + o.reads,
                            !.writes = writes + o.writes,
                            !.waits = waits \o o.waits,
                            !.faults = flt + o.faults] IN
        IF o.err = NoError THEN {o1}
        ELSE IF o.err.name \in {"ValidationError", "NotFoundError"} THEN {o1}
        ELSE IF attempt = LoadMaxRetries
        THEN {[o1 EXCEPT !.err = Err("StorageError",
                                     "Operation failed after attempts",
                                     o.err.name)]}
        ELSE RetryLoad(o.data, o.file, o.nextId, t, attempt + 1,
                       o1.reads, o1.writes,
                       Append(o1.waits, Backoff(LoadDelayMs, attempt)),
                       o1.faults)
        : o \in LoadOutcomes(d, f, nid, t)}

\* initialize(): every way the call can end. `ready` says whether
\* this.isInitialized = true was executed.
InitializeOutcomes(d, f, nid, t) ==
    \* fs.mkdir fails
    {[data |-> d, file |-> f, nextId |-> nid, reads |-> 0, writes |-> 0,
      waits |-> << >>, faults |-> 1, ready |-> FALSE,
      err |-> Err("StorageError", "Failed to initialize storage", "mkdir")]}
    \cup
    UNION {
        IF o.err = NoError
        THEN {[data |-> o.data, file |-> o.file, nextId |-> o.nextId,
               reads |-> o.reads, writes |-> o.writes, waits |-> o.waits,
               faults |-> o.faults, ready |-> TRUE, err |-> NoError]}
        ELSE IF o.err.name = "ENOENT"
        THEN {LET s == SaveToFile(o.data, o.file, t, wf) IN
              [data |-> s.data, file |-> s.file, nextId |-> o.nextId,
               reads |-> o.reads, writes |-> s.writes, waits |-> s.waits,
               faults |-> wf, ready |-> (s.err = NoError),
               err |-> IF s.err = NoError THEN NoError
                       ELSE Err("StorageError", "Failed to initialize storage",
                                "FileError/write")]
              : wf \in 0..SaveMaxRetries}
        ELSE {[data |-> r.data, file |-> r.file, nextId |-> r.nextId,
               reads |-> r.reads, writes |-> r.writes, waits |-> r.waits,
               faults |-> r.faults, ready |-> (r.err = NoError),
               err |-> IF r.err = NoError THEN NoError
                       ELSE Err("StorageError", "Failed to initialize storage",
                                IF r.err.name = "ValidationError"
                                THEN r.err.detail ELSE r.err.name)]
              : r \in RetryLoad(o.data, o.file, o.nextId, t, 1,
                                o.reads, o.writes, o.waits, o.faults)}
        : o \in LoadOutcomes(d, f, nid, t)}

\* TodoUtils.isOverdue and the rest of TodoUtils.getStats
IsOverdue(todo, t) ==
    todo.dueDate >= 1 /\ todo.dueDate < t /\ ~TruthyStr(todo.completed)

CountPriority(todos, p) ==
    Cardinality({i \in 1..Len(todos) : todos[i].priority = p})

GetStatsOf(todos, t) ==
    [total |-> StatsTotal(todos),
     completed |-> StatsCompleted(todos),
     overdue |-> Cardinality({i \in 1..Len(todos) : IsOverdue(todos[i], t)}),
     low |-> CountPriority(todos, "low"),
     medium |-> CountPriority(todos, "medium"),
     high |-> CountPriority(todos, "high")]

\* what the last call did: its name, the error it threw, the value it
\* returned, the fs.readFile / fs.writeFile calls it made, and the backoff
\* delays (ms) it slept, in order
\* a returned value, tagged with what it is
Ret(kind, val) == [kind |-> kind, val |-> val]
RetNone == Ret("none", 0)

ResultW(op, err, ret, reads, writes, waits) ==
    [op |-> op, err |-> err, ret |-> ret, reads |-> reads, writes |-> writes,
     waits |-> waits]

\* a call that slept in no backoff
Result(op, err, ret, reads, writes) ==
    ResultW(op, err, ret, reads, writes, << >>)

\* ensureInitialized throws
NotInitialized(op) ==
    /\ ~isInitialized
    /\ last' = Result(op, Err("StorageError", "not initialized", ""),
                      RetNone, 0, 0)
    /\ UNCHANGED <<inflight, filePath, retry,
                   isInitialized, data, file, backup, now, nextId,
                   faults>>

\* ---------------------------------------------------------------- actions
Initialize ==
    \E o \in InitializeOutcomes(data, file, nextId, now) :
        /\ o.nextId <= MaxGen
        /\ o.faults > 0 => faults < MaxFaults
        /\ faults' = IF o.faults > 0 THEN faults + 1 ELSE faults
        /\ isInitialized' = (isInitialized \/ o.ready)
        /\ data' = o.data
        /\ file' = o.file
        /\ nextId' = o.nextId
        /\ last' = ResultW("initialize", o.err, RetNone, o.reads, o.writes,
                           o.waits)
        /\ UNCHANGED <<inflight, filePath, retry, backup, now>>

\* mutant of addTodo: the todo is pushed before it is validated
AddTodoPushesBeforeValidating(todo) ==
    \/ NotInitialized("addTodo")
    \/ /\ isInitialized
       /\ ~TodoSchemaOk(todo)
       /\ Len(data.todos) < MaxTodos
       /\ data' = [data EXCEPT !.todos = Append(@, todo)]
       /\ last' = Result("addTodo", Err("ValidationError", "Invalid todo data", ""),
                         RetNone, 0, 0)
       /\ UNCHANGED <<inflight, filePath, retry,
                      isInitialized, file, backup, now, nextId, faults>>
    \/ /\ isInitialized
       /\ TodoSchemaOk(todo)
       /\ HasId(data.todos, todo.id)
       /\ last' = Result("addTodo", Err("ValidationError", "already exists", ""),
                         RetNone, 0, 0)
       /\ UNCHANGED <<inflight, filePath, retry,
                      isInitialized, data, file, backup, now, nextId,
                      faults>>
    \/ /\ isInitialized
       /\ TodoSchemaOk(todo)
       /\ ~HasId(data.todos, todo.id)
       /\ Len(data.todos) < MaxTodos
       /\ \E wf \in 0..SaveMaxRetries :
            LET s == SaveToFile([data EXCEPT !.todos = Append(@, todo)],
                                file, now, wf) IN
            /\ wf > 0 => faults < MaxFaults
            /\ faults' = IF wf > 0 THEN faults + 1 ELSE faults
            /\ data' = s.data
            /\ file' = s.file
            /\ last' = ResultW("addTodo", s.err,
                               IF s.err = NoError THEN Ret("todo", todo)
                               ELSE RetNone,
                               0, s.writes, s.waits)
       /\ UNCHANGED <<inflight, filePath, retry,
                      isInitialized, backup, now, nextId>>

\* mutant of addTodo: the "Ensure unique ID" check is missing
AddTodoWithoutUniqueCheck(todo) ==
    \/ NotInitialized("addTodo")
    \/ /\ isInitialized
       /\ ~TodoSchemaOk(todo)
       /\ last' = Result("addTodo", Err("ValidationError", "Invalid todo data", ""),
                         RetNone, 0, 0)
       /\ UNCHANGED <<inflight, filePath, retry,
                      isInitialized, data, file, backup, now, nextId,
                      faults>>
    \/ /\ isInitialized
       /\ TodoSchemaOk(todo)
       /\ Len(data.todos) < MaxTodos
       /\ \E wf \in 0..SaveMaxRetries :
            LET s == SaveToFile([data EXCEPT !.todos = Append(@, todo)],
                                file, now, wf) IN
            /\ wf > 0 => faults < MaxFaults
            /\ faults' = IF wf > 0 THEN faults + 1 ELSE faults
            /\ data' = s.data
            /\ file' = s.file
            /\ last' = ResultW("addTodo", s.err,
                               IF s.err = NoError THEN Ret("todo", todo)
                               ELSE RetNone,
                               0, s.writes, s.waits)
       /\ UNCHANGED <<inflight, filePath, retry,
                      isInitialized, backup, now, nextId>>

AddTodo(todo) ==
    \/ NotInitialized("addTodo")
    \/ /\ isInitialized
       /\ ~TodoSchemaOk(todo)
       /\ last' = Result("addTodo", Err("ValidationError", "Invalid todo data", ""),
                         RetNone, 0, 0)
       /\ UNCHANGED <<inflight, filePath, retry,
                      isInitialized, data, file, backup, now, nextId,
                      faults>>
    \/ /\ isInitialized
       /\ TodoSchemaOk(todo)
       /\ HasId(data.todos, todo.id)
       /\ last' = Result("addTodo", Err("ValidationError", "already exists", ""),
                         RetNone, 0, 0)
       /\ UNCHANGED <<inflight, filePath, retry,
                      isInitialized, data, file, backup, now, nextId,
                      faults>>
    \/ /\ isInitialized
       /\ TodoSchemaOk(todo)
       /\ ~HasId(data.todos, todo.id)
       /\ Len(data.todos) < MaxTodos
       /\ \E wf \in 0..SaveMaxRetries :
            LET s == SaveToFile([data EXCEPT !.todos = Append(@, todo)],
                                file, now, wf) IN
            /\ wf > 0 => faults < MaxFaults
            /\ faults' = IF wf > 0 THEN faults + 1 ELSE faults
            /\ data' = s.data
            /\ file' = s.file
            /\ last' = ResultW("addTodo", s.err,
                               IF s.err = NoError THEN Ret("todo", todo)
                               ELSE RetNone,
                               0, s.writes, s.waits)
       /\ UNCHANGED <<inflight, filePath, retry,
                      isInitialized, backup, now, nextId>>

\* mutant of updateTodo: the merged record is stored before it is validated
UpdateTodoStoresBeforeValidating(id, updates) ==
    \/ NotInitialized("updateTodo")
    \/ /\ isInitialized
       /\ FindIndex(data.todos, id) = 0
       /\ last' = Result("updateTodo", Err("NotFoundError", "todo", ""),
                         RetNone, 0, 0)
       /\ UNCHANGED <<inflight, filePath, retry,
                      isInitialized, data, file, backup, now, nextId,
                      faults>>
    \/ /\ isInitialized
       /\ FindIndex(data.todos, id) # 0
       /\ LET todoIndex == FindIndex(data.todos, id)
              updatedTodo == UtilsUpdateTodo(data.todos[todoIndex], updates, now)
          IN
          IF ~TodoSchemaOk(updatedTodo)
          THEN /\ last' = Result("updateTodo", Err("ValidationError",
                                     "Updated todo data is invalid", ""),
                                 RetNone, 0, 0)
               /\ data' = [data EXCEPT !.todos[todoIndex] = updatedTodo]
               /\ UNCHANGED <<inflight, filePath, retry, file, faults>>
          ELSE \E wf \in 0..SaveMaxRetries :
                 LET s == SaveToFile(
                            [data EXCEPT !.todos[todoIndex] = updatedTodo],
                            file, now, wf) IN
                 /\ wf > 0 => faults < MaxFaults
                 /\ faults' = IF wf > 0 THEN faults + 1 ELSE faults
                 /\ data' = s.data
                 /\ file' = s.file
                 /\ last' = ResultW("updateTodo", s.err,
                                    IF s.err = NoError
                                    THEN Ret("todo", updatedTodo)
                                    ELSE RetNone,
                                    0, s.writes, s.waits)
       /\ UNCHANGED <<inflight, filePath, retry,
                      isInitialized, backup, now, nextId>>

UpdateTodo(id, updates) ==
    \/ NotInitialized("updateTodo")
    \/ /\ isInitialized
       /\ FindIndex(data.todos, id) = 0
       /\ last' = Result("updateTodo", Err("NotFoundError", "todo", ""),
                         RetNone, 0, 0)
       /\ UNCHANGED <<inflight, filePath, retry,
                      isInitialized, data, file, backup, now, nextId,
                      faults>>
    \/ /\ isInitialized
       /\ FindIndex(data.todos, id) # 0
       /\ LET todoIndex == FindIndex(data.todos, id)
              updatedTodo == UtilsUpdateTodo(data.todos[todoIndex], updates, now)
          IN
          IF ~TodoSchemaOk(updatedTodo)
          THEN /\ last' = Result("updateTodo", Err("ValidationError",
                                     "Updated todo data is invalid", ""),
                                 RetNone, 0, 0)
               /\ UNCHANGED <<inflight, filePath, retry, data, file, faults>>
          ELSE \E wf \in 0..SaveMaxRetries :
                 LET s == SaveToFile(
                            [data EXCEPT !.todos[todoIndex] = updatedTodo],
                            file, now, wf) IN
                 /\ wf > 0 => faults < MaxFaults
                 /\ faults' = IF wf > 0 THEN faults + 1 ELSE faults
                 /\ data' = s.data
                 /\ file' = s.file
                 /\ last' = ResultW("updateTodo", s.err,
                                    IF s.err = NoError
                                    THEN Ret("todo", updatedTodo)
                                    ELSE RetNone,
                                    0, s.writes, s.waits)
       /\ UNCHANGED <<inflight, filePath, retry,
                      isInitialized, backup, now, nextId>>

\* mutant of deleteTodo: every record with the id is removed, as a filter
\* would, instead of the one findIndex points at
DeleteTodoRemovesEveryMatch(id) ==
    \/ NotInitialized("deleteTodo")
    \/ /\ isInitialized
       /\ FindIndex(data.todos, id) = 0
       /\ last' = Result("deleteTodo", NoError, Ret("bool", "false"), 0, 0)
       /\ UNCHANGED <<inflight, filePath, retry,
                      isInitialized, data, file, backup, now, nextId,
                      faults>>
    \/ /\ isInitialized
       /\ FindIndex(data.todos, id) # 0
       /\ \E wf \in 0..SaveMaxRetries :
            LET s == SaveToFile(
                       [data EXCEPT !.todos =
                            SelectSeq(@, LAMBDA todo : todo.id # id)],
                       file, now, wf) IN
            /\ wf > 0 => faults < MaxFaults
            /\ faults' = IF wf > 0 THEN faults + 1 ELSE faults
            /\ data' = s.data
            /\ file' = s.file
            /\ last' = ResultW("deleteTodo", s.err,
                               IF s.err = NoError THEN Ret("bool", "true")
                               ELSE RetNone,
                               0, s.writes, s.waits)
       /\ UNCHANGED <<inflight, filePath, retry,
                      isInitialized, backup, now, nextId>>

DeleteTodo(id) ==
    \/ NotInitialized("deleteTodo")
    \/ /\ isInitialized
       /\ FindIndex(data.todos, id) = 0
       /\ last' = Result("deleteTodo", NoError, Ret("bool", "false"), 0, 0)
       /\ UNCHANGED <<inflight, filePath, retry,
                      isInitialized, data, file, backup, now, nextId,
                      faults>>
    \/ /\ isInitialized
       /\ FindIndex(data.todos, id) # 0
       /\ \E wf \in 0..SaveMaxRetries :
            LET s == SaveToFile(
                       [data EXCEPT !.todos =
                            RemoveAt(@, FindIndex(data.todos, id))],
                       file, now, wf) IN
            /\ wf > 0 => faults < MaxFaults
            /\ faults' = IF wf > 0 THEN faults + 1 ELSE faults
            /\ data' = s.data
            /\ file' = s.file
            /\ last' = ResultW("deleteTodo", s.err,
                               IF s.err = NoError THEN Ret("bool", "true")
                               ELSE RetNone,
                               0, s.writes, s.waits)
       /\ UNCHANGED <<inflight, filePath, retry,
                      isInitialized, backup, now, nextId>>

ClearAllTodos ==
    \/ NotInitialized("clearAllTodos")
    \/ /\ isInitialized
       /\ \E wf \in 0..SaveMaxRetries :
            LET s == SaveToFile([data EXCEPT !.todos = << >>],
                                file, now, wf) IN
            /\ wf > 0 => faults < MaxFaults
            /\ faults' = IF wf > 0 THEN faults + 1 ELSE faults
            /\ data' = s.data
            /\ file' = s.file
            /\ last' = ResultW("clearAllTodos", s.err, RetNone, 0, s.writes,
                               s.waits)
       /\ UNCHANGED <<inflight, filePath, retry,
                      isInitialized, backup, now, nextId>>

GetAllTodos ==
    \/ NotInitialized("getAllTodos")
    \/ /\ isInitialized
       /\ last' = Result("getAllTodos", NoError, Ret("todos", data.todos), 0, 0)
       /\ UNCHANGED <<inflight, filePath, retry,
                      isInitialized, data, file, backup, now, nextId,
                      faults>>

GetTodoById(id) ==
    \/ NotInitialized("getTodoById")
    \/ /\ isInitialized
       /\ last' = Result("getTodoById", NoError,
                         IF FindIndex(data.todos, id) = 0 THEN Ret("null", 0)
                         ELSE Ret("todo", data.todos[FindIndex(data.todos, id)]),
                         0, 0)
       /\ UNCHANGED <<inflight, filePath, retry,
                      isInitialized, data, file, backup, now, nextId,
                      faults>>

GetStats ==
    \/ NotInitialized("getStats")
    \/ /\ isInitialized
       /\ last' = Result("getStats", NoError,
                         Ret("stats", GetStatsOf(data.todos, now)), 0, 0)
       /\ UNCHANGED <<inflight, filePath, retry,
                      isInitialized, data, file, backup, now, nextId,
                      faults>>

GetTodoList ==
    \/ NotInitialized("getTodoList")
    \/ /\ isInitialized
       /\ data' = UpdateMetadata(data, now)
       /\ last' = Result("getTodoList", NoError,
                         Ret("list", UpdateMetadata(data, now)), 0, 0)
       /\ UNCHANGED <<inflight, filePath, retry,
                      isInitialized, file, backup, now, nextId, faults>>

\* createBackup; `backup` is the one file the model keeps beside the primary
\* file, so a write to any path other than filePath lands in it
CreateBackup ==
    \/ NotInitialized("createBackup")
    \/ /\ isInitialized
       /\ \E wfail \in BOOLEAN :
            LET backupPath == BackupPath(filePath, now)
                jsonData == JsonStringify(data)
            IN
            /\ wfail => faults < MaxFaults
            /\ faults' = IF wfail THEN faults + 1 ELSE faults
            /\ backup' = IF wfail \/ backupPath = filePath THEN backup
                          ELSE jsonData
            /\ file' = IF ~wfail /\ backupPath = filePath THEN jsonData
                        ELSE file
            /\ last' = Result("createBackup", IF wfail
                              THEN Err("Error", "Failed to create backup", "")
                              ELSE NoError,
                              IF wfail THEN RetNone
                              ELSE Ret("path", backupPath),
                              0, 0)
       /\ UNCHANGED <<inflight, filePath, retry,
                      isInitialized, data, now, nextId>>

\* ------------------------------------------------- calls in flight
\* Every method of the store is async: it runs on the event loop without
\* interruption up to an await, and other calls run while it waits. A call
\* in flight is kept with the place it waits at (pc), the text
\* JSON.stringify gave its saveToFile (json), the number of the attempt it
\* waits for, the id it is about and the error it ended with.
CallIds == 1..MaxCalls

IdleCall ==
    [op |-> "none", pc |-> "idle", json |-> JsonStringify(EmptyData(0)),
     attempt |-> 0, id |-> 0, err |-> NoError]

NoCalls == [c \in CallIds |-> IdleCall]

\* call c has not been made yet, and the calls before it have
NotYetCalled(c) ==
    /\ inflight[c].pc = "idle"
    /\ \A k \in 1..(c - 1) : inflight[k].pc # "idle"

NoneInFlight == \A c \in CallIds : inflight[c].pc \in {"idle", "done"}

\* the call ends without a write
Returned(op, id, err) ==
    [op |-> op, pc |-> "done", json |-> IdleCall.json, attempt |-> 0,
     id |-> id, err |-> err]

\* the part of saveToFile before its await, on the changed list d:
\* updateMetadata, JSON.stringify, and the first fs.writeFile is issued
SaveIssued(c, op, id, d) ==
    LET d1 == UpdateMetadata(d, now) IN
    /\ data' = d1
    /\ inflight' = [inflight EXCEPT ![c] =
                       [op |-> op, pc |-> "writing", json |-> JsonStringify(d1),
                        attempt |-> 1, id |-> id, err |-> NoError]]

\* addTodo up to its await
AddTodoCalled(c, todo) ==
    /\ NotYetCalled(c)
    /\ IF ~isInitialized
       THEN /\ inflight' = [inflight EXCEPT ![c] =
                   Returned("addTodo", todo.id,
                            Err("StorageError", "not initialized", ""))]
            /\ data' = data
       ELSE IF ~TodoSchemaOk(todo)
       THEN /\ inflight' = [inflight EXCEPT ![c] =
                   Returned("addTodo", todo.id,
                            Err("ValidationError", "Invalid todo data", ""))]
            /\ data' = data
       ELSE IF HasId(data.todos, todo.id)
       THEN /\ inflight' = [inflight EXCEPT ![c] =
                   Returned("addTodo", todo.id,
                            Err("ValidationError", "already exists", ""))]
            /\ data' = data
       ELSE SaveIssued(c, "addTodo", todo.id,
                       [data EXCEPT !.todos = Append(@, todo)])
    /\ UNCHANGED <<isInitialized, file, backup, now, nextId, faults, last,
                   retry, filePath>>

\* updateTodo up to its await
UpdateTodoCalled(c, id, updates) ==
    /\ NotYetCalled(c)
    /\ IF ~isInitialized
       THEN /\ inflight' = [inflight EXCEPT ![c] =
                   Returned("updateTodo", id,
                            Err("StorageError", "not initialized", ""))]
            /\ data' = data
       ELSE IF FindIndex(data.todos, id) = 0
       THEN /\ inflight' = [inflight EXCEPT ![c] =
                   Returned("updateTodo", id, Err("NotFoundError", "todo", ""))]
            /\ data' = data
       ELSE LET todoIndex == FindIndex(data.todos, id)
                updatedTodo ==
                    UtilsUpdateTodo(data.todos[todoIndex], updates, now)
            IN IF ~TodoSchemaOk(updatedTodo)
               THEN /\ inflight' = [inflight EXCEPT ![c] =
                           Returned("updateTodo", id,
                                    Err("ValidationError",
                                        "Updated todo data is invalid", ""))]
                    /\ data' = data
               ELSE SaveIssued(c, "updateTodo", id,
                               [data EXCEPT !.todos[todoIndex] = updatedTodo])
    /\ UNCHANGED <<isInitialized, file, backup, now, nextId, faults, last,
                   retry, filePath>>

\* deleteTodo up to its await
DeleteTodoCalled(c, id) ==
    /\ NotYetCalled(c)
    /\ IF ~isInitialized
       THEN /\ inflight' = [inflight EXCEPT ![c] =
                   Returned("deleteTodo", id,
                            Err("StorageError", "not initialized", ""))]
            /\ data' = data
       ELSE IF FindIndex(data.todos, id) = 0
       THEN /\ inflight' = [inflight EXCEPT ![c] =
                   Returned("deleteTodo", 0, NoError)]
            /\ data' = data
       ELSE SaveIssued(c, "deleteTodo", id,
                       [data EXCEPT !.todos =
                           RemoveAt(@, FindIndex(data.todos, id))])
    /\ UNCHANGED <<isInitialized, file, backup, now, nextId, faults, last,
                   retry, filePath>>

\* clearAllTodos up to its await
ClearAllTodosCalled(c) ==
    /\ NotYetCalled(c)
    /\ IF ~isInitialized
       THEN /\ inflight' = [inflight EXCEPT ![c] =
                   Returned("clearAllTodos", 0,
                            Err("StorageError", "not initialized", ""))]
            /\ data' = data
       ELSE SaveIssued(c, "clearAllTodos", 0, [data EXCEPT !.todos = << >>])
    /\ UNCHANGED <<isInitialized, file, backup, now, nextId, faults, last,
                   retry, filePath>>

\* The fs.writeFile a call waits for settles, and the call runs on to its
\* next await or to its end. A write that succeeded has put the text that
\* call stringified into the file; a write that failed is issued again,
\* with the same text, until withRetry gives up.
WriteSettled(c) ==
    /\ inflight[c].pc = "writing"
    /\ \/ /\ file' = inflight[c].json
          /\ inflight' = [inflight EXCEPT ![c].pc = "done"]
          /\ faults' = faults
       \/ /\ inflight[c].attempt = 1 => faults < MaxFaults
          /\ faults' = IF inflight[c].attempt = 1 THEN faults + 1 ELSE faults
          /\ file' = file
          /\ inflight' = [inflight EXCEPT ![c] =
                IF inflight[c].attempt = SaveMaxRetries
                THEN [@ EXCEPT !.pc = "done",
                               !.err = Err("FileError", "write", "StorageError")]
                ELSE [@ EXCEPT !.attempt = @ + 1]]
    /\ UNCHANGED <<isInitialized, data, backup, now, nextId, last, retry,
                   filePath>>

\* initialize up to its first await: fs.mkdir is issued
InitializeCalled(c) ==
    /\ NotYetCalled(c)
    /\ inflight' = [inflight EXCEPT ![c] =
                       [IdleCall EXCEPT !.op = "initialize", !.pc = "mkdir"]]
    /\ UNCHANGED <<isInitialized, data, file, backup, now, nextId, faults,
                   last, retry, filePath>>

\* fs.mkdir settles: loadFromFile issues fs.readFile, or the outer catch
\* throws StorageError
MkdirSettled(c) ==
    /\ inflight[c].pc = "mkdir"
    /\ \/ /\ inflight' = [inflight EXCEPT ![c].pc = "reading"]
          /\ faults' = faults
       \/ /\ faults < MaxFaults
          /\ faults' = faults + 1
          /\ inflight' = [inflight EXCEPT ![c] =
                [@ EXCEPT !.pc = "done",
                          !.err = Err("StorageError",
                                      "Failed to initialize storage", "mkdir")]]
    /\ UNCHANGED <<isInitialized, data, file, backup, now, nextId, last,
                   retry, filePath>>

\* fs.readFile settles on a file in the current format: loadFromFile
\* parses it and assigns this.data, initialize sets isInitialized. A failed
\* read sends initialize into withRetry (attempt 1 follows at once, the
\* next ones after a backoff) until it gives up.
ReadSettled(c) ==
    /\ inflight[c].pc = "reading"
    /\ TodoListSchemaOk(file)
    /\ \/ /\ data' = TodoListSchemaParse(file)
          /\ isInitialized' = TRUE
          /\ inflight' = [inflight EXCEPT ![c].pc = "done"]
          /\ faults' = faults
       \/ /\ inflight[c].attempt = 0 => faults < MaxFaults
          /\ faults' = IF inflight[c].attempt = 0 THEN faults + 1 ELSE faults
          /\ data' = data
          /\ isInitialized' = isInitialized
          /\ inflight' = [inflight EXCEPT ![c] =
                IF inflight[c].attempt = LoadMaxRetries
                THEN [@ EXCEPT !.pc = "done",
                               !.err = Err("StorageError",
                                           "Failed to initialize storage", "EIO")]
                ELSE [@ EXCEPT !.attempt = @ + 1]]
    /\ UNCHANGED <<file, backup, now, nextId, last, retry, filePath>>

\* The caller of getAllTodos holds what the call returned, [...this.data.todos]
\* (kept in last.ret): a new array whose elements are the very objects of the
\* store's array. Until the store is called again, element i of the held
\* array and element i of this.data.todos are one object.
CallerHoldsTodos ==
    /\ last.op = "getAllTodos"
    /\ last.err = NoError

\* the caller assigns a property of a record it was handed
CallerEditsRecord ==
    /\ CallerHoldsTodos
    /\ \E i \in 1..Len(last.ret.val) :
          /\ data' = [data EXCEPT !.todos[i].title = "Changed"]
          /\ last' = [last EXCEPT
                         !.op = "caller.editRecord",
                         !.ret = Ret("todos",
                                     [last.ret.val EXCEPT ![i].title = "Changed"])]
    /\ UNCHANGED <<inflight, filePath, retry,
                   isInitialized, file, backup, now, nextId,
                   faults>>

\* the caller removes the last element of the array it was handed
CallerEditsSequence ==
    /\ CallerHoldsTodos
    /\ Len(last.ret.val) >= 1
    /\ last' = [last EXCEPT
                   !.op = "caller.editSequence",
                   !.ret = Ret("todos",
                               SubSeq(last.ret.val, 1, Len(last.ret.val) - 1))]
    /\ UNCHANGED <<inflight, filePath, retry,
                   isInitialized, data, file, backup, now,
                   nextId, faults>>

\* restoreFromBackup(backupPath): every way the call can end
RestoreOutcomes(d, f, b, nid, t) ==
    IF b.kind \in {"absent", "malformed"}
    THEN {[data |-> d, file |-> f, nextId |-> nid, reads |-> 1, writes |-> 0,
           waits |-> << >>, faults |-> 0,
           err |-> Err("Error", "Failed to restore from backup",
                       IF b.kind = "absent" THEN "ENOENT" ELSE "SyntaxError")]}
    ELSE {[data |-> d, file |-> f, nextId |-> nid, reads |-> 1, writes |-> 0,
           waits |-> << >>, faults |-> 1,
           err |-> Err("Error", "Failed to restore from backup", "EIO")]}
         \cup
         UNION {
            LET v == ValidateAndMigrate(d, f, b, nid, t, wf1) IN
            IF v.err # NoError
            THEN {[data |-> v.data, file |-> v.file, nextId |-> v.nextId,
                   reads |-> 1, writes |-> v.writes, waits |-> v.waits,
                   faults |-> v.faults,
                   err |-> Err("Error", "Failed to restore from backup",
                               v.err.detail)]}
            ELSE {LET s == SaveToFile(v.ret, v.file, t, wf2) IN
                  [data |-> s.data, file |-> s.file, nextId |-> v.nextId,
                   reads |-> 1, writes |-> v.writes + s.writes,
                   waits |-> v.waits \o s.waits,
                   faults |-> v.faults + wf2,
                   err |-> IF s.err = NoError THEN NoError
                           ELSE Err("Error", "Failed to restore from backup",
                                    "FileError/write")]
                  : wf2 \in 0..SaveMaxRetries}
            : wf1 \in 0..SaveMaxRetries}

\* the content fs.readFile finds at a path
FileAt(path) == IF path = filePath THEN file ELSE backup

\* mutant of restoreFromBackup: the restored list is written to the path it
\* was read from
RestoreFromBackupSavingToBackupPath(backupPath) ==
    \E o \in RestoreOutcomes(data, FileAt(backupPath), FileAt(backupPath),
                             nextId, now) :
        /\ o.nextId <= MaxGen
        /\ o.faults > 0 => faults < MaxFaults
        /\ faults' = IF o.faults > 0 THEN faults + 1 ELSE faults
        /\ data' = o.data
        /\ file' = IF backupPath = filePath THEN o.file ELSE file
        /\ backup' = IF backupPath = filePath THEN backup ELSE o.file
        /\ nextId' = o.nextId
        /\ last' = ResultW("restoreFromBackup", o.err, RetNone, o.reads,
                           o.writes, o.waits)
        /\ UNCHANGED <<inflight, filePath, retry, isInitialized, now>>

RestoreFromBackup(backupPath) ==
    \E o \in RestoreOutcomes(data, file, FileAt(backupPath), nextId, now) :
        /\ o.nextId <= MaxGen
        /\ o.faults > 0 => faults < MaxFaults
        /\ faults' = IF o.faults > 0 THEN faults + 1 ELSE faults
        /\ data' = o.data
        /\ file' = o.file
        /\ nextId' = o.nextId
        /\ last' = ResultW("restoreFromBackup", o.err, RetNone, o.reads,
                           o.writes, o.waits)
        /\ UNCHANGED <<inflight, filePath, retry, isInitialized, backup, now>>

\* the clock
Tick ==
    /\ now < MaxTime
    /\ now' = now + 1
    /\ UNCHANGED <<inflight, filePath, retry,
                   isInitialized, data, file, backup, nextId, faults,
                   last>>

\* ----------------------------------------------------------------- inputs
UserIds == {1, 2}

\* a Todo as TodoUtils.createTodo builds it at time ts
BaseTodo(id, ts) ==
    [id |-> id, title |-> "T1", description |-> "", completed |-> "false",
     createdAt |-> ts, updatedAt |-> ts, dueDate |-> 0,
     priority |-> "medium", tags |-> "none"]

\* arguments of addTodo: well-formed todos, and todos that break the schema
\* (an empty title, an id that is no uuid)
AddInputs(t) ==
    {BaseTodo(id, t) : id \in UserIds}
    \cup {[BaseTodo(1, t) EXCEPT !.title = ""], BaseTodo(-1, t)}

\* partialUpdates of updateTodo
UpdateInputs ==
    {[title |-> "T2", completed |-> "true"], [title |-> ""], << >>,
     [createdAt |-> MaxTime], [id |-> 2]}

\* an element of a legacy array file: only some keys present
LegacyItem(id, title, completed) ==
    [id |-> id, title |-> title, description |-> Missing,
     completed |-> completed, createdAt |-> 0, updatedAt |-> 0,
     dueDate |-> 0, priority |-> Missing, tags |-> Missing]

FileOf(kind, todos, metadata) ==
    [kind |-> kind, todos |-> todos, metadata |-> metadata]

Meta(total, completed) ==
    [version |-> "1.0.0", lastModified |-> 1,
     totalCount |-> total, completedCount |-> completed]

AbsentFile == FileOf("absent", << >>, NoMetadata)
MalformedFile == FileOf("malformed", << >>, NoMetadata)
\* a JSON object without a todos key, such as {"someOtherFormat": "x"}
OtherFile == FileOf("other", << >>, NoMetadata)

LegacyArrayFiles ==
    {FileOf("array", items, NoMetadata) :
        items \in {<<LegacyItem(-1, "Old", "true")>>,
                   <<LegacyItem(1, "Old", Missing)>>,
                   <<LegacyItem(0, "", "yes")>>,
                   <<LegacyItem(-1, "Old", "true"),
                     LegacyItem(-1, "T1", "false")>>}}

NoMetadataFiles ==
    {FileOf("nometa", todos, NoMetadata) :
        todos \in {<<BaseTodo(1, 1)>>, <<LegacyItem(-1, "Old", "true")>>,
                   <<[BaseTodo(2, 1) EXCEPT !.completed = "true"],
                     BaseTodo(1, 1)>>}}

\* a schema-valid file whose todo was last updated later than the clock of
\* the store now shows
FutureFile ==
    FileOf("wrapped", <<[BaseTodo(1, 1) EXCEPT !.updatedAt = MaxTime]>>,
           Meta(1, 0))

WrappedFiles ==
    {FileOf("wrapped", <<BaseTodo(1, 1)>>, Meta(1, 0)),
     FutureFile,
     FileOf("wrapped", <<BaseTodo(1, 1)>>, Meta(2, 1)),
     FileOf("wrapped", <<BaseTodo(1, 1), [BaseTodo(1, 1) EXCEPT !.title = "T2"]>>,
            Meta(2, 0)),
     FileOf("wrapped", <<BaseTodo(-1, 1)>>, Meta(1, 0))}

InitialFiles ==
    {AbsentFile, MalformedFile, OtherFile}
    \cup LegacyArrayFiles \cup NoMetadataFiles \cup WrappedFiles

InitialBackups ==
    {AbsentFile, MalformedFile,
     FileOf("wrapped", <<BaseTodo(2, 1)>>, Meta(1, 0)),
     FileOf("array", <<LegacyItem(-1, "Old", "true")>>, NoMetadata)}

ValidFile == FileOf("wrapped", <<BaseTodo(1, 1)>>, Meta(1, 0))
\* a schema-valid file whose counts do not match its todos
WrongCountsFile == FileOf("wrapped", <<BaseTodo(1, 1)>>, Meta(2, 1))
ValidBackup == FileOf("wrapped", <<BaseTodo(2, 1)>>, Meta(1, 0))

\* ---------------------------------------------------------- specification
StorePaths == {DefaultPath, OtherExtPath}

\* no call of withRetry under study
NoRetryCall ==
    [maxRetries |-> 0, delayMs |-> 0, outcomes |-> << >>, done |-> FALSE,
     calls |-> 0, waits |-> << >>, err |-> "none", cause |-> ""]

InitStore ==
    /\ isInitialized = FALSE
    /\ now = 1
    /\ data = EmptyData(1)
    /\ nextId = 0
    /\ faults = 0
    /\ last = Result("new", NoError, RetNone, 0, 0)
    /\ retry = NoRetryCall
    /\ inflight = NoCalls

\* Spec: the life of a store that starts from no file or from a file in the
\* current format, under every mutating call
Init ==
    /\ InitStore
    /\ filePath = DefaultPath
    /\ file \in {AbsentFile, ValidFile}
    /\ backup = ValidBackup

Next ==
    \/ Initialize
    \/ \E todo \in AddInputs(now) : AddTodo(todo)
    \/ \E id \in UserIds, updates \in UpdateInputs : UpdateTodo(id, updates)
    \/ \E id \in UserIds : DeleteTodo(id)
    \/ ClearAllTodos
    \/ RestoreFromBackup(BackupPath(filePath, now))
    \/ Tick

Spec == Init /\ [][Next]_vars

\* SpecLoad: a store started on every kind of file (absent, malformed,
\* unsupported, legacy array, missing metadata, current format)
InitLoad ==
    /\ InitStore
    /\ filePath = DefaultPath
    /\ \/ file \in InitialFiles /\ backup = AbsentFile
       \/ file = AbsentFile /\ backup \in InitialBackups

NextLoad ==
    \/ Initialize
    \/ RestoreFromBackup(BackupPath(filePath, now))
    \/ AddTodo(BaseTodo(2, now))
    \/ UpdateTodo(1, [title |-> "T2"])
    \/ DeleteTodo(1)
    \/ ClearAllTodos
    \/ GetStats
    \/ Tick

SpecLoad == InitLoad /\ [][NextLoad]_vars

\* SpecAll: every public operation, on a store that may never have been
\* initialized
InitAll ==
    /\ InitStore
    /\ filePath = DefaultPath
    /\ file \in {AbsentFile, WrongCountsFile}
    /\ backup = ValidBackup

NextAll ==
    \/ Initialize
    \/ \E id \in UserIds : AddTodo(BaseTodo(id, now))
    \/ UpdateTodo(1, [title |-> "T2", completed |-> "true"])
    \/ DeleteTodo(1)
    \/ ClearAllTodos
    \/ GetAllTodos
    \/ GetTodoById(1)
    \/ GetStats
    \/ GetTodoList
    \/ CreateBackup
    \/ RestoreFromBackup(BackupPath(filePath, now))
    \/ Tick

SpecAll == InitAll /\ [][NextAll]_vars

\* SpecRetry: RetryHandler.withRetry on its own, for every number of
\* attempts up to MaxRetries, the two delays the store passes, and every
\* way the successive invocations of the operation can end
RetryOutcomes == {"ok", "EIO", "ValidationError", "NotFoundError"}

RetryCalls ==
    UNION {
        {[maxRetries |-> m, delayMs |-> dl, outcomes |-> outs,
          done |-> FALSE, calls |-> 0, waits |-> << >>, err |-> "none",
          cause |-> ""] :
            dl \in {SaveDelayMs, LoadDelayMs},
            outs \in [1..m -> RetryOutcomes]}
        : m \in 1..MaxRetries}

\* one call of RetryHandler.withRetry(operation, maxRetries, delayMs)
WithRetryCall ==
    /\ ~retry.done
    /\ retry.maxRetries >= 1
    /\ LET r == WithRetry(retry.outcomes, retry.maxRetries, retry.delayMs) IN
       retry' = [retry EXCEPT !.done = TRUE, !.calls = r.calls,
                              !.waits = r.waits, !.err = r.err,
                              !.cause = r.cause]
    /\ UNCHANGED <<inflight, filePath, isInitialized, data, file, backup, now, nextId,
                   faults, last>>

InitRetry ==
    /\ isInitialized = FALSE
    /\ now = 1
    /\ data = EmptyData(1)
    /\ nextId = 0
    /\ faults = 0
    /\ last = Result("new", NoError, RetNone, 0, 0)
    /\ file = AbsentFile
    /\ backup = AbsentFile
    /\ retry \in RetryCalls
    /\ filePath = DefaultPath
    /\ inflight = NoCalls

NextRetry == WithRetryCall

SpecRetry == InitRetry /\ [][NextRetry]_vars

\* SpecBackup: a store on a path with or without '.json', started on a
\* current or a legacy file, that is backed up, changed and restored, and
\* whose caller changes what getAllTodos handed it
InitBackup ==
    /\ InitStore
    /\ filePath \in StorePaths
    /\ file \in {AbsentFile, ValidFile,
                 FileOf("array", <<LegacyItem(-1, "Old", "true")>>, NoMetadata)}
    /\ backup \in {AbsentFile, MalformedFile,
                   FileOf("array", <<LegacyItem(2, "Old", "true")>>, NoMetadata)}

NextBackup ==
    \/ Initialize
    \/ AddTodo(BaseTodo(2, now))
    \/ ClearAllTodos
    \/ GetAllTodos
    \/ CallerEditsRecord
    \/ CallerEditsSequence
    \/ CreateBackup
    \/ RestoreFromBackup(BackupPath(filePath, now))
    \/ Tick

SpecBackup == InitBackup /\ [][NextBackup]_vars

\* SpecAsync: a store initialized on a file in the current format, on which
\* up to MaxCalls calls are then made without awaiting the one before
InitAsync ==
    /\ InitStore
    /\ filePath = DefaultPath
    /\ file = ValidFile
    /\ backup = AbsentFile

NextAsync ==
    \/ (~isInitialized /\ NoneInFlight /\ Initialize)
    \/ \E c \in CallIds : AddTodoCalled(c, BaseTodo(2, now))
    \/ \E c \in CallIds : UpdateTodoCalled(c, 1, [title |-> "T2"])
    \/ \E c \in CallIds : DeleteTodoCalled(c, 1)
    \/ \E c \in CallIds : ClearAllTodosCalled(c)
    \/ \E c \in CallIds : InitializeCalled(c)
    \/ \E c \in CallIds : WriteSettled(c)
    \/ \E c \in CallIds : MkdirSettled(c)
    \/ \E c \in CallIds : ReadSettled(c)
    \/ Tick

SpecAsync == InitAsync /\ [][NextAsync]_vars

TypeOK ==
    /\ isInitialized \in BOOLEAN
    /\ now \in 1..MaxTime
    /\ nextId \in 0..MaxGen
    /\ faults \in 0..MaxFaults
    /\ Len(data.todos) <= MaxTodos + 1

\* ------------------------------------------------------------------ claims
\* A step that is a call of the store (every call rewrites `last`; only the
\* clock leaves it alone)
CallStep(op) == now' = now /\ last'.op = op

\* C1 (as stated): addTodo never makes two stored todos share an id, and an
\* addTodo whose id is already present always fails with ValidationError
\* 'already exists' and leaves the in-memory list and the file as they were.
C1_DuplicateAlwaysAlreadyExists ==
    [][\A todo \in AddInputs(now) :
          (isInitialized /\ AddTodo(todo)) =>
             /\ UniqueIds(data.todos) => UniqueIds(data'.todos)
             /\ HasId(data.todos, todo.id) =>
                   /\ last'.err.name = "ValidationError"
                   /\ last'.err.detail = "already exists"
                   /\ data' = data
                   /\ file' = file]_vars

\* C1 (amended): addTodo never makes two stored todos share an id; an addTodo
\* whose id is already present always fails with ValidationError and leaves
\* the in-memory list and the file as they were; the message is 'already
\* exists' when the argument satisfies the schema and 'Invalid todo data'
\* when it does not, because the schema is checked first.
C1_DuplicateAlwaysRejected ==
    [][\A todo \in AddInputs(now) :
          (isInitialized /\ AddTodo(todo)) =>
             /\ UniqueIds(data.todos) => UniqueIds(data'.todos)
             /\ HasId(data.todos, todo.id) =>
                   /\ last'.err.name = "ValidationError"
                   /\ last'.err.detail = IF TodoSchemaOk(todo)
                                         THEN "already exists"
                                         ELSE "Invalid todo data"
                   /\ data' = data
                   /\ file' = file]_vars

\* C1 witness: a schema-valid addTodo with a reused id has been rejected
C1_Witness ==
    /\ isInitialized
    /\ last.op = "addTodo"
    /\ last.err.detail = "already exists"
    /\ Len(data.todos) >= 1

\* C2 (as stated): in every reachable state of a Ready store the ids of the
\* todos held in memory are unique.
C2_IdsUniqueInMemory == isInitialized => UniqueIds(data.todos)

\* C3 (as stated): a successful updateTodo(id, partialUpdates) keeps the
\* record's id and createdAt, changes no field that partialUpdates lacks,
\* and sets updatedAt to the current time.
C3_UpdatePreservesIdentity ==
    [][\A id \in UserIds, updates \in UpdateInputs :
          (/\ isInitialized
           /\ FindIndex(data.todos, id) # 0
           /\ UpdateTodo(id, updates)
           /\ last'.err = NoError) =>
             LET i == FindIndex(data.todos, id) IN
             /\ data'.todos[i].id = data.todos[i].id
             /\ data'.todos[i].createdAt = data.todos[i].createdAt
             /\ data'.todos[i].updatedAt = now
             /\ \A k \in DOMAIN data.todos[i] \ (DOMAIN updates \cup {"updatedAt"}) :
                    data'.todos[i][k] = data.todos[i][k]]_vars

\* C4 (as stated): while the store is Uninitialized every public operation
\* other than initialize fails with StorageError 'not initialized' and
\* changes neither the in-memory list nor any file (stated here for the
\* calls in which no file-system call fails).
C4_UninitializedRejectsAll ==
    [][(/\ ~isInitialized
        /\ now' = now
        /\ last'.op # "initialize"
        /\ faults' = faults) =>
          /\ last'.err = Err("StorageError", "not initialized", "")
          /\ data' = data
          /\ file' = file
          /\ backup' = backup]_vars

\* what a fresh store bound to the same path holds after initialize, when
\* no file-system call fails
FreshLoad(f) == LoadFromFile(EmptyData(now), f, nextId, now, FALSE, 0)

\* C5 (as stated): whenever the store has written its list to disk, a fresh
\* store initialized on the same path succeeds and holds a deep-equal todo
\* sequence in the same order.
C5_RoundTrip ==
    (isInitialized /\ last.err = NoError /\ file = JsonStringify(data)) =>
        /\ FreshLoad(file).err = NoError
        /\ FreshLoad(file).data.todos = data.todos

\* C6 (as stated): after initialize has migrated a legacy array file and
\* rewritten it, a second load of the rewritten file succeeds, takes the
\* no-migration path (no write) and yields the identical TodoList.
C6_MigrationIdempotent ==
    [][(/\ file.kind = "array"
        /\ CallStep("initialize")
        /\ last'.err = NoError) =>
          /\ file'.kind = "wrapped"
          /\ LET o == LoadFromFile(data', file', nextId', now, FALSE, 0) IN
             /\ o.err = NoError
             /\ o.writes = 0
             /\ o.data = data'
             /\ o.file = file']_vars

\* C7: after every mutating operation that returns successfully (addTodo,
\* updateTodo, deleteTodo of a present id, clearAllTodos, restoreFromBackup)
\* the todo sequence in the primary file equals the one in memory.
C7_PersistedAfterSuccess ==
    (/\ last.op \in {"addTodo", "updateTodo", "deleteTodo", "clearAllTodos",
                     "restoreFromBackup"}
     /\ last.err = NoError
     /\ ~(last.op = "deleteTodo" /\ last.ret = Ret("bool", "false"))) =>
        /\ file.kind = "wrapped"
        /\ file.todos = data.todos

\* C7 witness: an updateTodo succeeded after an earlier write had failed
C7_Witness ==
    /\ last.op = "updateTodo"
    /\ last.err = NoError
    /\ faults = 1
    /\ Len(data.todos) = 2

CountsMatch(doc) ==
    /\ doc.metadata.totalCount = Len(doc.todos)
    /\ doc.metadata.completedCount =
          Cardinality({i \in 1..Len(doc.todos) : doc.todos[i].completed = "true"})

\* C8 (as stated): the TodoList returned by getTodoList, the content any
\* save writes to the primary file and the content createBackup writes all
\* carry totalCount and completedCount equal to the live counts.
C8_CountsAlwaysLive ==
    [][/\ (CallStep("getTodoList") /\ last'.err = NoError) =>
              CountsMatch(last'.ret.val)
       /\ (file' # file) => CountsMatch(file')
       /\ (CallStep("createBackup") /\ last'.err = NoError) =>
              CountsMatch(backup')]_vars

\* C9 (as stated): when the store file holds malformed JSON (and the
\* directory exists), initialize reads the file exactly once and fails at
\* once with a FileError of operation read; the store stays Uninitialized
\* and the file is not modified.
C9_MalformedJsonNotRetried ==
    [][(/\ file.kind = "malformed"
        /\ ~isInitialized
        /\ CallStep("initialize")
        /\ last'.err.cause # "mkdir") =>
          /\ last'.reads = 1
          /\ last'.err.name = "FileError"
          /\ last'.err.detail = "read"
          /\ ~isInitialized'
          /\ file' = file]_vars

\* the parsed file fits neither the schema nor a legacy format
Unsupported(f) ==
    /\ f.kind \notin {"absent", "malformed", "array", "nometa"}
    /\ ~TodoListSchemaOk(f)

\* C10 (as stated): when the parsed store file fits neither the schema nor
\* a legacy format (and no file-system call fails), initialize fails with
\* ValidationError 'unsupported format' without retrying; the store stays
\* Uninitialized and the file is not modified.
C10_UnsupportedFormatValidationError ==
    [][(/\ Unsupported(file)
        /\ ~isInitialized
        /\ CallStep("initialize")
        /\ faults' = faults) =>
          /\ last'.err.name = "ValidationError"
          /\ last'.err.detail = "Unable to migrate todo data - unsupported format"
          /\ last'.reads = 1
          /\ ~isInitialized'
          /\ file' = file]_vars

\* the empty TodoList a new store writes at time t
FreshFile(t) == JsonStringify(EmptyData(t))

\* C11 (as stated): when the store file is absent (the directory can be
\* made, the store is new), initialize writes a fresh empty TodoList and is
\* Ready only once that write has succeeded; if the bootstrap write fails,
\* initialize fails with a FileError of operation write and the store stays
\* Uninitialized.
C11_BootstrapWriteFailureIsFileError ==
    [][(/\ file.kind = "absent"
        /\ ~isInitialized
        /\ data.todos = << >>
        /\ CallStep("initialize")
        /\ last'.err.cause # "mkdir") =>
          IF last'.err = NoError
          THEN /\ isInitialized'
               /\ file' = FreshFile(now)
          ELSE /\ last'.err.name = "FileError"
               /\ last'.err.detail = "write"
               /\ ~isInitialized'
               /\ file' = file]_vars

\* a call of initialize on a new store whose file is in the current format,
\* in which fs.readFile failed (no write is made on such a file, so the
\* file-system failure of the call is a failed read)
ReadFailedInitialize ==
    /\ TodoListSchemaOk(file)
    /\ ~isInitialized
    /\ CallStep("initialize")
    /\ faults' = faults + 1
    /\ last'.err.cause # "mkdir"

LogicalErrors == {"ValidationError", "NotFoundError"}

\* C14: withRetry never retries a logical error. For every maxRetries >= 1,
\* when an invocation of the operation throws a ValidationError or a
\* NotFoundError, that invocation is the last one and the same error reaches
\* the caller unwrapped; when it is the first invocation, the operation has
\* been invoked exactly once and no backoff delay was slept.
C14_LogicalErrorNeverRetried ==
    retry.done =>
        /\ \A k \in 1..retry.calls :
              retry.outcomes[k] \in LogicalErrors =>
                 /\ retry.calls = k
                 /\ retry.err = retry.outcomes[k]
                 /\ retry.cause = ""
        /\ retry.outcomes[1] \in LogicalErrors =>
              /\ retry.calls = 1
              /\ retry.err = retry.outcomes[1]
              /\ retry.waits = << >>

\* C14 witness: withRetry(operation, 3, delayMs) has returned for an
\* operation that throws NotFoundError whenever it is invoked
C14_Witness ==
    /\ retry.done
    /\ retry.maxRetries = MaxRetries
    /\ \A k \in 1..retry.maxRetries : retry.outcomes[k] = "NotFoundError"
    /\ retry.calls = 1

\* one persist: saveToFile of the current list when the first wf write
\* attempts fail makes min(wf + 1, 3) attempts, sleeps 500 ms after the
\* first failure and 1000 ms after the second, writes the file iff an
\* attempt succeeded and throws FileError 'write' otherwise; and withRetry
\* never invokes its operation more than maxRetries times
PersistRetriesBounded ==
    /\ \A wf \in 0..SaveMaxRetries :
          LET sv == SaveToFile(data, file, now, wf) IN
          /\ sv.writes = IF wf < SaveMaxRetries THEN wf + 1 ELSE SaveMaxRetries
          /\ sv.waits = SubSeq(<<SaveDelayMs, 2 * SaveDelayMs>>, 1, sv.writes - 1)
          /\ IF wf < SaveMaxRetries
             THEN sv.err = NoError /\ sv.file = JsonStringify(sv.data)
             ELSE /\ sv.err.name = "FileError"
                  /\ sv.err.detail = "write"
                  /\ sv.file = file
    /\ \A m \in 1..MaxRetries, fails \in 0..MaxRetries :
          WithRetry(FailFirst(fails, m), m, SaveDelayMs).calls <= m

\* a call step of one of the operations that persist, on a Ready store, in
\* which a write was attempted
PersistingCall(ops) ==
    /\ isInitialized
    /\ now' = now
    /\ last'.op \in ops
    /\ last'.writes > 0

C15_FailedUpdateChangesNothing ==
    [][\A id \in UserIds, updates \in UpdateInputs :
          (isInitialized /\ UpdateTodo(id, updates)) =>
             LET i == FindIndex(data.todos, id) IN
             /\ i = 0 => last'.err.name = "NotFoundError"
             /\ (i # 0 /\ ~TodoSchemaOk(UtilsUpdateTodo(data.todos[i],
                                                        updates, now))) =>
                    last'.err.name = "ValidationError"
             /\ last'.err.name \in {"NotFoundError", "ValidationError"} =>
                    /\ data' = data
                    /\ file' = file
                    /\ last'.writes = 0]_vars

\* C15 witness: an updateTodo of a stored todo was rejected because the
\* merged record violates the schema
C15_Witness ==
    /\ isInitialized
    /\ last.op = "updateTodo"
    /\ last.err.name = "ValidationError"
    /\ Len(data.todos) >= 1

\* C16: on a Ready store, addTodo of an argument that violates the Todo
\* schema fails with ValidationError, appends nothing and attempts no file
\* write; an addTodo that succeeds has appended the todo at the end of the
\* sequence and returns it unchanged.
C16_AddValidatesThenAppends ==
    [][\A todo \in AddInputs(now) :
          (isInitialized /\ AddTodo(todo)) =>
             /\ ~TodoSchemaOk(todo) =>
                    /\ last'.err.name = "ValidationError"
                    /\ data' = data
                    /\ file' = file
                    /\ last'.writes = 0
             /\ last'.err = NoError =>
                    /\ data'.todos = Append(data.todos, todo)
                    /\ last'.ret = Ret("todo", todo)
                    /\ file'.todos = data'.todos]_vars

\* C16 witness: an addTodo of a todo with an empty title or an id that is
\* no uuid was rejected by a store that holds a todo
C16_Witness ==
    /\ isInitialized
    /\ last.op = "addTodo"
    /\ last.err.detail = "Invalid todo data"
    /\ Len(data.todos) >= 1

\* the sequence without its i-th element, the others in their order
Without(todos, i) ==
    SubSeq(todos, 1, i - 1) \o SubSeq(todos, i + 1, Len(todos))

\* C17: on a Ready store, deleteTodo of an absent id returns false, raises
\* no error, leaves the sequence unchanged and writes nothing; deleteTodo of
\* a present id that returns has returned true, removed exactly one record,
\* one with that id, kept all others in their order, and persisted the
\* result (its only failure is the FileError of a write that failed three
\* times).
C17_DeleteRemovesExactlyOne ==
    [][\A id \in UserIds :
          (isInitialized /\ DeleteTodo(id)) =>
             IF ~HasId(data.todos, id)
             THEN /\ last'.err = NoError
                  /\ last'.ret = Ret("bool", "false")
                  /\ data' = data
                  /\ file' = file
                  /\ last'.writes = 0
             ELSE IF last'.err = NoError
             THEN /\ last'.ret = Ret("bool", "true")
                  /\ Len(data'.todos) = Len(data.todos) - 1
                  /\ \E i \in 1..Len(data.todos) :
                        /\ data.todos[i].id = id
                        /\ data'.todos = Without(data.todos, i)
                  /\ file'.kind = "wrapped"
                  /\ file'.todos = data'.todos
             ELSE /\ last'.err.name = "FileError"
                  /\ last'.writes = SaveMaxRetries
                  /\ file' = file]_vars

\* C17 witness: deleteTodo returned true and left one record in the store
C17_Witness ==
    /\ isInitialized
    /\ last.op = "deleteTodo"
    /\ last.ret = Ret("bool", "true")
    /\ Len(data.todos) = 1

\* C18 (as stated): every successful updateTodo leaves the updatedAt of the
\* record it addresses (and of every other record) greater than or equal
\* to what it was before the call.
C18_UpdatedAtNeverDecreases ==
    [][(/\ isInitialized
        /\ CallStep("updateTodo")
        /\ last'.err = NoError) =>
          \A i \in 1..Len(data.todos) :
              data'.todos[i].updatedAt >= data.todos[i].updatedAt]_vars

\* element `new` of the store is element `old` of a legacy array with its
\* own fields kept and the defaults filled in at time t; ids made for it
\* lie in lo+1..hi
CoercedFrom(old, new, t, lo, hi) ==
    /\ IF TruthyNum(old.id) THEN new.id = old.id
       ELSE new.id > GenBase + lo /\ new.id <= GenBase + hi
    /\ new.title = (IF TruthyStr(old.title) THEN old.title ELSE "Untitled")
    /\ new.description =
          (IF TruthyStr(old.description) THEN old.description ELSE "")
    /\ new.completed \in {"true", "false"}
    /\ (new.completed = "true") = TruthyStr(old.completed)
    /\ new.createdAt = (IF TruthyNum(old.createdAt) THEN old.createdAt ELSE t)
    /\ new.updatedAt = (IF TruthyNum(old.updatedAt) THEN old.updatedAt ELSE t)
    /\ new.dueDate = old.dueDate
    /\ new.priority =
          (IF TruthyStr(old.priority) THEN old.priority ELSE "medium")
    /\ new.tags = (IF old.tags \in {"none", "one", "many"} THEN old.tags
                   ELSE "none")

\* C19: initialize on a bare array of todo-like objects succeeds unless a
\* file-system call fails; it then holds one todo per element in the same
\* order, each with the fields it had and the defaults for the missing ones
\* (new id, 'Untitled', '', boolean completed, current timestamp, 'medium',
\* empty tags), and the file holds the same list in the wrapped format. A
\* call that fails does not make the store Ready.
C19_ArrayMigratedAndRewritten ==
    [][(file.kind = "array" /\ CallStep("initialize")) =>
          /\ (faults' = faults) => (last'.err = NoError)
          /\ (last'.err = NoError) =>
                /\ isInitialized'
                /\ Len(data'.todos) = Len(file.todos)
                /\ \A i \in 1..Len(file.todos) :
                      CoercedFrom(file.todos[i], data'.todos[i], now,
                                  nextId, nextId')
                /\ \A i, j \in 1..Len(file.todos) :
                      (i # j /\ data'.todos[i].id > GenBase) =>
                          data'.todos[i].id # data'.todos[j].id
                /\ data'.metadata.version = "1.0.0"
                /\ file' = JsonStringify(data')
                /\ last'.writes >= 1
          /\ (last'.err # NoError) =>
                /\ isInitialized' = isInitialized
                /\ last'.err.name = "StorageError"
          /\ (isInitialized' /\ ~isInitialized) => file'.kind = "wrapped"]_vars

\* initialize has migrated an array whose element had no id, no title and a
\* truthy non-boolean completed, and rewritten the file
C19_Witness ==
    /\ isInitialized
    /\ last.op = "initialize" /\ last.err = NoError /\ last.writes >= 1
    /\ Len(data.todos) = 1
    /\ data.todos[1].id > GenBase
    /\ data.todos[1].title = "Untitled"
    /\ data.todos[1].completed = "true"
    /\ file = JsonStringify(data)

\* how many todos of a parsed file are completed
CompletedIn(todos) ==
    Cardinality({i \in 1..Len(todos) :
                    todos[i].completed \notin {"false", "", Missing}})

\* C20: initialize on an object with a todos sequence and no metadata
\* succeeds unless a file-system call fails; it then holds the same todos in
\* the same order with metadata of version '1.0.0', totalCount the number
\* of todos and completedCount the number completed, and the file holds
\* that result. A call that fails does not make the store Ready.
C20_MetadataSynthesizedAndPersisted ==
    [][(file.kind = "nometa" /\ CallStep("initialize")) =>
          /\ (faults' = faults) => (last'.err = NoError)
          /\ (last'.err = NoError) =>
                /\ isInitialized'
                /\ data'.todos = file.todos
                /\ data'.metadata.version = "1.0.0"
                /\ data'.metadata.totalCount = Len(file.todos)
                /\ data'.metadata.completedCount = CompletedIn(file.todos)
                /\ data'.metadata.lastModified = now
                /\ file' = JsonStringify(data')
                /\ last'.writes >= 1
                /\ nextId' = nextId
          /\ (last'.err # NoError) =>
                /\ isInitialized' = isInitialized
                /\ last'.err.name = "StorageError"
          /\ (isInitialized' /\ ~isInitialized) => file'.kind = "wrapped"]_vars

\* initialize has added metadata to a two-todo list, one of them completed,
\* and written the result
C20_Witness ==
    /\ isInitialized
    /\ last.op = "initialize" /\ last.err = NoError /\ last.writes >= 1
    /\ Len(data.todos) = 2
    /\ data.todos[1].id = 2 /\ data.todos[2].id = 1
    /\ data.metadata.totalCount = 2 /\ data.metadata.completedCount = 1
    /\ file = JsonStringify(data)

\* clearAllTodos on list d and file f when no write fails
AfterClear(d, f, t) == SaveToFile([d EXCEPT !.todos = << >>], f, t, 0)

\* C21 (as stated, for a store on the default path): whenever a Ready store
\* has taken a backup, clearAllTodos followed by restoreFromBackup on the
\* returned path succeeds (no file-system call failing) and the store then
\* holds exactly the sequence it held when the backup was taken.
C21_BackupRestoreRoundTrip ==
    [][(/\ isInitialized
        /\ filePath = DefaultPath
        /\ CallStep("createBackup")
        /\ last'.err = NoError) =>
          LET c == AfterClear(data', file', now)
              path == last'.ret.val
              b == IF path = filePath THEN c.file ELSE backup'
          IN \A o \in RestoreOutcomes(c.data, c.file, b, nextId, now) :
                (o.faults = 0) =>
                    /\ o.err = NoError
                    /\ o.data.todos = data.todos]_vars

\* C22: a successful restoreFromBackup from a path other than the primary
\* one leaves the store holding the validated (current format) or migrated
\* (legacy array, missing metadata) content of that file, writes that list
\* to the primary file, once more when the content had to be migrated
\* (failed attempts are retried), and leaves the backup file unchanged.
C22_RestoreWritesPrimaryOnly ==
    [][(/\ CallStep("restoreFromBackup")
        /\ BackupPath(filePath, now) # filePath
        /\ last'.err = NoError) =>
          /\ backup' = backup
          /\ file' = JsonStringify(data')
          /\ Len(data'.todos) = Len(backup.todos)
          /\ \A i \in 1..Len(backup.todos) :
                IF backup.kind = "array"
                THEN CoercedFrom(backup.todos[i], data'.todos[i], now,
                                 nextId, nextId')
                ELSE data'.todos[i] = backup.todos[i]
          /\ backup.kind = "wrapped" =>
                /\ \A i \in 1..Len(backup.todos) :
                      TodoSchemaOk(backup.todos[i])
                /\ last'.writes >= 1
                /\ (faults' = faults) => last'.writes = 1
          /\ backup.kind \in {"array", "nometa"} =>
                /\ last'.writes >= 2
                /\ (faults' = faults) => last'.writes = 2
          /\ last'.reads = 1]_vars

\* restoreFromBackup has migrated a legacy array backup and written the
\* result to the primary file, twice, leaving the backup an array
C22_Witness ==
    /\ last.op = "restoreFromBackup" /\ last.err = NoError
    /\ last.writes = 2
    /\ backup.kind = "array"
    /\ Len(data.todos) = 1 /\ data.todos[1].id = 2
    /\ file = JsonStringify(data)

\* the path names a file beside the primary one: '_backup_' and a timestamp
\* sit right before the final extension
IsBackupPathOf(path, primary) ==
    /\ path # primary
    /\ Len(path) = Len(primary) + 2
    /\ SubSeq(path, 1, Len(primary) - 1) = SubSeq(primary, 1, Len(primary) - 1)
    /\ path[Len(path) - 2] = Lit("_backup_")
    /\ path[Len(path) - 1].ts >= 1
    /\ path[Len(path)] = primary[Len(primary)]

\* C23 (as stated): on every primary path, createBackup on a Ready store
\* writes the in-memory TodoList to a sibling path with '_backup_<timestamp>'
\* before the extension, different from the primary path, returns that path
\* and leaves the in-memory list and the primary file unchanged; a failing
\* backup write raises 'Failed to create backup' and changes nothing.
C23_BackupGoesToSiblingPath ==
    [][(isInitialized /\ CallStep("createBackup")) =>
          /\ data' = data
          /\ file' = file
          /\ IF last'.err = NoError
             THEN /\ last'.ret.kind = "path"
                  /\ IsBackupPathOf(last'.ret.val, filePath)
                  /\ backup' = JsonStringify(data)
             ELSE /\ last'.err.detail = "Failed to create backup"
                  /\ backup' = backup]_vars

\* C24 (as stated): for every todo sequence the store can hold, getStats
\* returns total = the length, completed = the number of todos whose
\* completed is true, overdue = the number with a dueDate before now that
\* are not completed, and byPriority buckets that sum to total; it changes
\* neither the sequence nor the file.
C24_StatsCorrect ==
    [][(isInitialized /\ CallStep("getStats")) =>
          LET stats == last'.ret.val
              n == Len(data.todos)
          IN /\ stats.total = n
             /\ stats.completed =
                   Cardinality({i \in 1..n : data.todos[i].completed = "true"})
             /\ stats.overdue =
                   Cardinality({i \in 1..n :
                                   /\ data.todos[i].dueDate >= 1
                                   /\ data.todos[i].dueDate < now
                                   /\ data.todos[i].completed # "true"})
             /\ stats.low + stats.medium + stats.high = stats.total
             /\ data' = data
             /\ file' = file]_vars

\* C25 (as stated): getAllTodos on a Ready store returns the current
\* sequence in storage order and changes nothing; what the caller then does
\* to the returned sequence or to a record in it changes neither what the
\* store holds nor the file.
C25_GetAllTodosIsSnapshot ==
    [][/\ (isInitialized /\ CallStep("getAllTodos")) =>
             /\ last'.ret = Ret("todos", data.todos)
             /\ data' = data
             /\ file' = file
       /\ (last'.op \in {"caller.editRecord", "caller.editSequence"}) =>
             /\ data' = data
             /\ file' = file]_vars

MutatingOps == {"addTodo", "updateTodo", "deleteTodo", "clearAllTodos"}

\* C28 (as stated): when addTodo, updateTodo, deleteTodo or clearAllTodos
\* fails because the write failed on all its attempts, the in-memory todo
\* sequence is the same as before the call.
C28_FailedWriteKeepsMemory ==
    [][(/\ isInitialized
        /\ now' = now
        /\ last'.op \in MutatingOps
        /\ last'.err.name = "FileError") =>
          data'.todos = data.todos]_vars

\* C29 (as stated): a restoreFromBackup call that fails reports the one
\* wrapped failure 'Failed to restore from backup' and leaves the in-memory
\* TodoList and the primary file exactly as they were.
C29_FailedRestoreChangesNothing ==
    [][(CallStep("restoreFromBackup") /\ last'.err # NoError) =>
          /\ last'.err.name = "Error"
          /\ last'.err.detail = "Failed to restore from backup"
          /\ data' = data
          /\ file' = file]_vars

\* C30 (as stated): in every Ready state every todo in memory and every
\* todo in the primary file satisfies the Todo schema.
C30_ReadyTodosAreValid ==
    isInitialized =>
        /\ \A i \in 1..Len(data.todos) : TodoSchemaOk(data.todos[i])
        /\ \A i \in 1..Len(file.todos) : TodoSchemaOk(file.todos[i])

\* call c has returned without an error
Succeeded(c) == inflight[c].pc = "done" /\ inflight[c].err = NoError

\* a successful call that takes todo `id` out of the list was made
Removed(id) ==
    \E c \in CallIds :
        /\ Succeeded(c)
        /\ \/ inflight[c].op = "clearAllTodos"
           \/ inflight[c].op = "deleteTodo" /\ inflight[c].id = id

\* C26 (as stated, for calls that all succeeded): once every mutating call
\* made on a Ready store has returned, the in-memory sequence holds every
\* todo a successful addTodo added and no successful call removed, holds
\* no id twice, and the primary file holds exactly the in-memory sequence.
C26_NoLostUpdateUnderInterleaving ==
    (/\ isInitialized
     /\ NoneInFlight
     /\ \A c \in CallIds :
           /\ inflight[c].op \in MutatingOps \cup {"none"}
           /\ inflight[c].err = NoError) =>
        /\ \A c \in CallIds :
              (inflight[c].op = "addTodo" /\ ~Removed(inflight[c].id)) =>
                  HasId(data.todos, inflight[c].id)
        /\ UniqueIds(data.todos)
        /\ file.todos = data.todos

\* the list shows what the successful mutating call c did
Reflects(todos, c) ==
    CASE inflight[c].op = "addTodo" -> HasId(todos, inflight[c].id)
      [] inflight[c].op = "updateTodo" ->
            \E i \in 1..Len(todos) :
                todos[i].id = inflight[c].id /\ todos[i].title = "T2"
      [] inflight[c].op = "deleteTodo" ->
            inflight[c].id # 0 => ~HasId(todos, inflight[c].id)
      [] inflight[c].op = "clearAllTodos" -> todos = << >>
      [] OTHER -> TRUE

\* C27 (as stated): when initialize is called again on a Ready store, alone
\* or while one mutating call is in flight, then once both have returned the
\* store is Ready and what the successful mutating call did shows in memory
\* and in the file.
C27_ReinitializeKeepsChanges ==
    (/\ NoneInFlight
     /\ \E k \in CallIds : inflight[k].op = "initialize") =>
        \A c \in CallIds :
            (Succeeded(c) /\ inflight[c].op \in MutatingOps) =>
                /\ isInitialized
                /\ Reflects(data.todos, c)
                /\ Reflects(file.todos, c)

====
